---- MODULE Spec2Model ----
(***************************************************************************)
(* Model of pylon.Cloudant (src/pylon.py): the 429-retrying request        *)
(* executor and the streaming line decoder request_streamed.               *)
(* Durations are integers in hundredths of a second (0.1s = 10).           *)
(***************************************************************************)
EXTENDS Integers, Sequences, FiniteSets, TLC

\* ---------------------------------------------------------------- bounds
MaxRetries == 1          \* largest max_retries handed to retry_config
MaxLines == 3            \* lines a response stream delivers before the model stops reading

\* ------------------------------------------------------------- constants
DefaultMaxRetries == 5   \* self.max_retries = 5
DefaultBaseDelay == 10   \* self.base_delay = 0.1
RateLimit == 429         \* e.response.status_code == 429
MaxJitter == 9           \* random.randint(0, 9)

None == 0                \* r = None
TransportFail == -1      \* no HTTP response: the transport raised

Statuses == {200, 201, 304, 401, 412, 429, 500}
Responses == Statuses \cup {TransportFail}
FeedUrl == "/db/_changes"
AllDocsUrl == "/db/_all_docs"
Urls == {"/db", FeedUrl}
BaseDelays == {0, DefaultBaseDelay}

\* ------------------------------------------------ text of a streamed line
\* A line is a sequence of one-character strings; BadByte stands for a byte
\* sequence that is not UTF-8.
Quote == "\""
BadByte == "xFF"
Whitespace == {" "}
Digits == {"0", "1", "2"}

RECURSIVE Rstrip(_)
\* line.rstrip()
Rstrip(s) ==
    IF s # << >> /\ s[Len(s)] \in Whitespace
    THEN Rstrip(SubSeq(s, 1, Len(s) - 1))
    ELSE s

\* line.decode('utf-8') raises UnicodeDecodeError
DecodeFails(s) == \E k \in 1..Len(s) : s[k] = BadByte

\* the pattern without its optional comma: ^(\{.+\}?\})$
GroupEndsNoComma(s) ==
    { e \in 1..Len(s) :
        /\ s[1] = "{"
        /\ \E d \in 2..(e - 1) :
              \/ d + 1 = e
              \/ d + 2 = e /\ s[d + 1] = "}"
        /\ s[e] = "}"
        /\ e = Len(s) }

\* re.match(r"^(\{.+\}?\}),?$", s): the possible ends of group 1
GroupEnds(s) ==
    { e \in 1..Len(s) :
        /\ s[1] = "{"
        /\ \E d \in 2..(e - 1) :                   \* .+ is s[2..d]
              \/ d + 1 = e                         \* \}? matches nothing
              \/ d + 2 = e /\ s[d + 1] = "}"       \* \}? matches a brace
        /\ s[e] = "}"
        /\ \/ e = Len(s)                           \* ,? matches nothing
           \/ e + 1 = Len(s) /\ s[e + 1] = "," }

Matches(s) == GroupEnds(s) # {}

\* m.group(1)
Group1(s) == SubSeq(s, 1, CHOOSE e \in GroupEnds(s) : \A f \in GroupEnds(s) : f <= e)

\* -------------------------------------------------------------- json.loads
\* The decoder of the json module on the characters that occur in the lines
\* of the model: objects, arrays, strings without escapes, unsigned integers.
JFail == [ok |-> FALSE, v |-> << >>, p |-> 0]
JOk(v, p) == [ok |-> TRUE, v |-> v, p |-> p]
EmptyStr == <<"str", << >> >>        \* the Python value ''

RECURSIVE SkipWs(_, _)
SkipWs(s, p) == IF p <= Len(s) /\ s[p] \in Whitespace THEN SkipWs(s, p + 1) ELSE p

At(s, p) == IF p >= 1 /\ p <= Len(s) THEN s[p] ELSE ""

RECURSIVE StringEnd(_, _)
\* position of the closing quote of the string whose text starts at p, 0 if none
StringEnd(s, p) ==
    IF p > Len(s) THEN 0
    ELSE IF s[p] = Quote THEN p
    ELSE StringEnd(s, p + 1)

\* scanstring, p just after the opening quote
ScanString(s, p) ==
    LET q == StringEnd(s, p)
    IN IF q = 0 THEN JFail ELSE JOk(<<"str", SubSeq(s, p, q - 1)>>, q + 1)

RECURSIVE DigitsEnd(_, _)
DigitsEnd(s, p) == IF At(s, p) \in Digits THEN DigitsEnd(s, p + 1) ELSE p

\* NUMBER_RE: 0 | [1-9][0-9]*
ScanNumber(s, p) ==
    LET q == IF s[p] = "0" THEN p + 1 ELSE DigitsEnd(s, p)
    IN JOk(<<"num", SubSeq(s, p, q - 1)>>, q)

RECURSIVE ScanOnce(_, _)
RECURSIVE ObjectMembers(_, _, _)
RECURSIVE ArrayItems(_, _, _)

\* JSONObject, p just after '{'
JSONObject(s, p) ==
    LET q == IF At(s, p) # Quote THEN SkipWs(s, p) ELSE p
    IN IF At(s, q) = "}" THEN JOk(<<"obj", << >> >>, q + 1)
       ELSE IF At(s, q) # Quote THEN JFail
       ELSE ObjectMembers(s, q + 1, << >>)

\* the while loop of JSONObject, p just after the opening quote of a key
ObjectMembers(s, p, pairs) ==
    LET k == ScanString(s, p)
    IN IF ~k.ok THEN JFail
       ELSE LET c == SkipWs(s, k.p)
            IN IF At(s, c) # ":" THEN JFail
               ELSE LET val == ScanOnce(s, SkipWs(s, c + 1))
                    IN IF ~val.ok THEN JFail
                       ELSE LET more == ((k.v[2] :> val.v) @@ pairs)
                                e == SkipWs(s, val.p)
                            IN IF At(s, e) = "}" THEN JOk(<<"obj", more>>, e + 1)
                               ELSE IF At(s, e) # "," THEN JFail
                               ELSE LET n == SkipWs(s, e + 1)
                                    IN IF At(s, n) # Quote THEN JFail
                                       ELSE ObjectMembers(s, n + 1, more)

\* JSONArray, p just after '['
JSONArray(s, p) ==
    LET q == SkipWs(s, p)
    IN IF At(s, q) = "]" THEN JOk(<<"arr", << >> >>, q + 1)
       ELSE ArrayItems(s, q, << >>)

ArrayItems(s, p, items) ==
    LET val == ScanOnce(s, p)
    IN IF ~val.ok THEN JFail
       ELSE LET more == Append(items, val.v)
                e == SkipWs(s, val.p)
            IN IF At(s, e) = "]" THEN JOk(<<"arr", more>>, e + 1)
               ELSE IF At(s, e) # "," THEN JFail
               ELSE ArrayItems(s, SkipWs(s, e + 1), more)

\* scan_once: one JSON value starting at p
ScanOnce(s, p) ==
    IF At(s, p) = Quote THEN ScanString(s, p + 1)
    ELSE IF At(s, p) = "{" THEN JSONObject(s, p + 1)
    ELSE IF At(s, p) = "[" THEN JSONArray(s, p + 1)
    ELSE IF At(s, p) \in Digits THEN ScanNumber(s, p)
    ELSE JFail

\* json.loads(s): a value, then only whitespace; ok = FALSE models ValueError
JsonLoads(s) ==
    LET val == ScanOnce(s, SkipWs(s, 1))
    IN IF val.ok /\ SkipWs(s, val.p) = Len(s) + 1 THEN val ELSE JFail

\* parse_line without the second attempt
ParseLineNoRetry(line) ==
    IF DecodeFails(Rstrip(line)) THEN [err |-> TRUE, data |-> EmptyStr]
    ELSE LET decoded_line == Rstrip(line)
         IN IF Matches(decoded_line)
            THEN LET first == JsonLoads(Group1(decoded_line))
                 IN IF first.ok THEN [err |-> FALSE, data |-> first.v]
                    ELSE [err |-> FALSE, data |-> EmptyStr]
            ELSE [err |-> FALSE, data |-> EmptyStr]

\* parse_line that lets the ValueError of the second attempt escape
ParseLineRaises(line) ==
    IF DecodeFails(Rstrip(line)) THEN [err |-> TRUE, data |-> EmptyStr]
    ELSE LET decoded_line == Rstrip(line)
         IN IF Matches(decoded_line)
            THEN LET value == Group1(decoded_line)
                     first == JsonLoads(value)
                     second == JsonLoads(value \o <<"}">>)
                 IN IF first.ok THEN [err |-> FALSE, data |-> first.v]
                    ELSE IF second.ok THEN [err |-> FALSE, data |-> second.v]
                    ELSE [err |-> TRUE, data |-> EmptyStr]
            ELSE [err |-> FALSE, data |-> EmptyStr]

\* parse_line that goes on appending: a third attempt with two braces
ParseLineTwoBraces(line) ==
    IF DecodeFails(Rstrip(line)) THEN [err |-> TRUE, data |-> EmptyStr]
    ELSE LET decoded_line == Rstrip(line)
         IN IF Matches(decoded_line)
            THEN LET value == Group1(decoded_line)
                     first == JsonLoads(value)
                     second == JsonLoads(value \o <<"}">>)
                     third == JsonLoads(value \o <<"}", "}">>)
                 IN IF first.ok THEN [err |-> FALSE, data |-> first.v]
                    ELSE IF second.ok THEN [err |-> FALSE, data |-> second.v]
                    ELSE IF third.ok THEN [err |-> FALSE, data |-> third.v]
                    ELSE [err |-> FALSE, data |-> EmptyStr]
            ELSE [err |-> FALSE, data |-> EmptyStr]

\* parse_line(regex, line): '' for a line without data; err when decode raised
ParseLine(line) ==
    IF DecodeFails(Rstrip(line)) THEN [err |-> TRUE, data |-> EmptyStr]
    ELSE LET decoded_line == Rstrip(line)
         IN IF Matches(decoded_line)
            THEN LET value == Group1(decoded_line)
                     first == JsonLoads(value)
                     second == JsonLoads(value \o <<"}">>)
                 IN IF first.ok THEN [err |-> FALSE, data |-> first.v]
                    ELSE IF second.ok THEN [err |-> FALSE, data |-> second.v]
                    ELSE [err |-> FALSE, data |-> EmptyStr]
            ELSE [err |-> FALSE, data |-> EmptyStr]

\* ------------------------------------------------------ lines of a stream
\* a blank line (heartbeat of a continuous feed)
LEmpty == << >>
\* whitespace only:   
LBlank == <<" ">>
\* opening bracket of the envelope:  [
LOpen == <<"[">>
\* closing bracket of the envelope:  ]
LClose == <<"]">>
\* a row followed by the separator:  {"id":"a"},
LRowA == <<"{", Quote, "i", "d", Quote, ":", Quote, "a", Quote, "}", ",">>
\* a row without separator:  {"id":"c"}
LRowC == <<"{", Quote, "i", "d", Quote, ":", Quote, "c", Quote, "}">>
\* a row cut before its closing brace:  {"id":"c","value":1
LCut == <<"{", Quote, "i", "d", Quote, ":", Quote, "c", Quote, ",", Quote, "v", "a", "l", "u", "e", Quote, ":", "1">>
\* a row whose outer closing brace is missing:  {"id":"c","value":{"n":1}
LCutNested == <<"{", Quote, "i", "d", Quote, ":", Quote, "c", Quote, ",", Quote, "v", "a", "l", "u", "e", Quote, ":", "{", Quote, "n", Quote, ":", "1", "}">>
\* a row that lacks two closing braces:  {"a":{"b":{}
LCutTwice == <<"{", Quote, "a", Quote, ":", "{", Quote, "b", Quote, ":", "{", "}">>
\* the empty object:  {}
LEmptyObj == <<"{", "}">>
\* braces around text that is not JSON:  {x}
LNoise == <<"{", "x", "}">>
\* bytes that are not UTF-8
LBad == <<"{", BadByte, "}">>

Lines == {LEmpty, LBlank, LOpen, LClose, LRowA, LRowC, LCut, LCutNested, LCutTwice,
          LEmptyObj, LNoise, LBad}

VARIABLES
    max_retries, base_delay,   \* the retry policy of the session
    pc,                        \* where the current call of self.request stands
    op,                        \* the operation that made the call
    urlstr, i, r, delay,       \* arguments and locals of request
    calls,                     \* network calls made by the current call
    sleeps,                    \* sleep() calls completed by the current call
    resps,                     \* what each network call of the current call produced
    result,                    \* how request ended
    outcome,                   \* how the operation ended for its caller
    entry,                     \* the policy self held when the current call began
    other,                     \* frame of a second request call, made by another thread
    gen,                       \* state of the generator of request_streamed
    stream,                    \* the response handed to closing()
    closes,                    \* r.close() calls on that response
    lines,                     \* lines r.iter_lines() has delivered
    yielded,                   \* values the consumer has received
    generr                     \* exception the generator raised to the consumer

frame == <<pc, op, urlstr, i, r, delay, calls, sleeps, resps, result, outcome, entry>>
reqvars == <<frame, other>>
genvars == <<gen, stream, closes, lines, yielded, generr>>
vars == <<max_retries, base_delay, reqvars, genvars>>

\* requests.Response.raise_for_status: raises HTTPError for 4xx and 5xx
RaisesForStatus(s) == s >= 400 /\ s < 600

Is2xx(s) == s >= 200 /\ s < 300

NoResult == [kind |-> "none", status |-> None, text |-> "", limit |-> 0, url |-> ""]

\* return r
Returned(s) == [kind |-> "return", status |-> s, text |-> "", limit |-> 0, url |-> ""]

\* the second thread is not inside request; noise is the sum of the jitters
\* its call has drawn
NoCall ==
    [pc |-> "idle", urlstr |-> "", i |-> 0, r |-> None, delay |-> 0, noise |-> 0,
     calls |-> 0, sleeps |-> 0, resps |-> << >>, result |-> NoResult]

\* the HTTPError of r.raise_for_status(), re-raised by `raise e`
StatusError(s, u) ==
    [kind |-> "HTTPError", status |-> s,
     text |-> IF s < 500 THEN "Client Error" ELSE "Server Error",
     limit |-> 0, url |-> u]

\* the exception of the transport, which no except clause of request catches
TransportError(u) ==
    [kind |-> "ConnectionError", status |-> None, text |-> "", limit |-> 0, url |-> u]

\* what sleep(delay) raises for a negative delay
SleepError(u) ==
    [kind |-> "IOError", status |-> None, text |-> "Invalid argument", limit |-> 0, url |-> u]

\* the last 429 error is re-raised as it is
LimitErrorBare(resp, limit, u) == StatusError(resp, u)

\* u'%s Error: max retries limit: %d hit for url: %s' % (r.status_code, self.max_retries, urlstr)
\* with r = None the expression r.status_code raises AttributeError
LimitError(resp, limit, u) ==
    IF resp = None
    THEN [kind |-> "AttributeError", status |-> None, text |-> "", limit |-> 0, url |-> ""]
    ELSE [kind |-> "HTTPError", status |-> resp, text |-> "max retries limit",
          limit |-> limit, url |-> u]

\* a loop that stops one value early
InRangeShort(v) == v > 1

\* xrange(n, 0, -1) has a (next) value v exactly when v > 0
InRange(v) == v > 0

\* every server error is taken for a rate limit
ClassifyRetryServerErrors(resp) ==
    IF resp = TransportFail THEN "propagate"
    ELSE IF ~RaisesForStatus(resp) THEN "return"
    ELSE IF resp = RateLimit \/ resp >= 500 THEN "backoff"
    ELSE "raise"

\* a transport failure is retried like a 429
ClassifyRetryTransport(resp) ==
    IF resp = TransportFail THEN "backoff"
    ELSE IF ~RaisesForStatus(resp) THEN "return"
    ELSE IF resp = RateLimit THEN "backoff"
    ELSE "raise"

\* the try/except of lines 110-120, by what the attempt produced
Classify(resp) ==
    IF resp = TransportFail THEN "propagate"
    ELSE IF ~RaisesForStatus(resp) THEN "return"
    ELSE IF resp = RateLimit THEN "backoff"
    ELSE "raise"

\* random.randint(0, 9), drawn only on the 429 path
Jitters(resp) == IF Classify(resp) = "backoff" THEN 0..MaxJitter ELSE {0}

\* a delay that grows by the base delay as well on every 429
BackoffAddsBase(d, jitter) == d + base_delay + jitter

\* delay = delay + random.randint(0, 9)/100.0
Backoff(d, jitter) == d + jitter

\* a create_database that re-raises every error, 412 included
DeliverRaises412(o, res) ==
    IF o = "create_database"
    THEN IF res.kind = "return" THEN [res |-> res, created |-> "True"]
         ELSE [res |-> res, created |-> "-"]
    ELSE [res |-> res, created |-> "-"]

\* what the caller of the operation gets once self.request has ended
\* create_database: 412 becomes ({'ok': True}, False), every other error is re-raised
Deliver(o, res) ==
    IF o = "create_database"
    THEN IF res.kind = "return" THEN [res |-> res, created |-> "True"]
         ELSE IF res.kind = "HTTPError" /\ res.status = 412
              THEN [res |-> Returned(412), created |-> "False"]
              ELSE [res |-> res, created |-> "-"]
    ELSE [res |-> res, created |-> "-"]

NoOutcome == [res |-> NoResult, created |-> "-"]

Init ==
    /\ max_retries = DefaultMaxRetries
    /\ base_delay = DefaultBaseDelay
    /\ pc = "idle"
    /\ op = "none"
    /\ urlstr = ""
    /\ i = 0
    /\ r = None
    /\ delay = 0
    /\ calls = 0
    /\ sleeps = 0
    /\ resps = << >>
    /\ result = NoResult
    /\ outcome = NoOutcome
    /\ entry = [max_retries |-> DefaultMaxRetries, base_delay |-> DefaultBaseDelay]
    /\ other = NoCall
    /\ gen = "none"
    /\ stream = "none"
    /\ closes = 0
    /\ lines = << >>
    /\ yielded = << >>
    /\ generr = "none"

\* no call of the session is in progress
Quiet ==
    /\ pc \in {"idle", "done"}
    /\ other.pc \in {"idle", "done"}
    /\ gen \in {"none", "finished", "closed"}

\* the previous generator, if any, is out of the picture
NoGenerator ==
    /\ gen' = "none"
    /\ stream' = "none"
    /\ closes' = 0
    /\ lines' = << >>
    /\ yielded' = << >>
    /\ generr' = "none"

\* retry_config(max_retries, base_delay); the caller has left the previous call behind
RetryConfig(m, b) ==
    /\ max_retries' = m
    /\ base_delay' = b

Reconfigure(m, b) ==
    /\ Quiet
    /\ RetryConfig(m, b)
    /\ pc' = "idle"
    /\ op' = "none"
    /\ urlstr' = ""
    /\ calls' = 0
    /\ sleeps' = 0
    /\ resps' = << >>
    /\ result' = NoResult
    /\ outcome' = NoOutcome
    /\ entry' = [max_retries |-> m, base_delay |-> b]
    /\ other' = NoCall
    /\ NoGenerator
    /\ UNCHANGED <<i, r, delay>>

\* request, lines 107-109: r = None, delay = base_delay, first value of xrange
Enter(u) ==
    /\ urlstr' = u
    /\ r' = None
    /\ delay' = base_delay
    /\ i' = max_retries
    /\ entry' = [max_retries |-> max_retries, base_delay |-> base_delay]
    /\ UNCHANGED other
    /\ pc' = IF InRange(max_retries) THEN "attempt" ELSE "limit"
    /\ calls' = 0
    /\ sleeps' = 0
    /\ resps' = << >>
    /\ result' = NoResult
    /\ outcome' = NoOutcome

\* how the call ends (return r / raise): the frame and its locals are gone.
\* A response returned to request_streamed goes straight to closing(): the
\* consumer of the generator never sees it, only the stream it opens.
Finish(res) ==
    /\ pc' = "done"
    /\ i' = 0
    /\ r' = None
    /\ delay' = 0
    /\ IF op = "request_streamed"
       THEN IF res.kind = "return"
            THEN /\ gen' = "running"
                 /\ stream' = "open"
                 /\ result' = NoResult
                 /\ outcome' = NoOutcome
                 /\ UNCHANGED generr
            ELSE /\ gen' = "finished"
                 /\ generr' = res.kind
                 /\ result' = res
                 /\ outcome' = Deliver(op, res)
                 /\ UNCHANGED stream
       ELSE /\ result' = res
            /\ outcome' = Deliver(op, res)
            /\ UNCHANGED <<gen, stream, generr>>

\* Cloudant.request called directly
Request(u) ==
    /\ Quiet
    /\ op' = "request"
    /\ Enter(u)
    /\ NoGenerator
    /\ UNCHANGED <<max_retries, base_delay>>

\* create_database: self.put(endpoint(self.url, '/' + database)) goes through self.request
CreateDatabase(u) ==
    /\ Quiet
    /\ op' = "create_database"
    /\ Enter(u)
    /\ NoGenerator
    /\ UNCHANGED <<max_retries, base_delay>>

\* one pass of the try block, lines 110-120; the log of a call that hands its
\* response to the generator ends with the call
Attempt(resp, jitter) ==
    /\ pc = "attempt"
    /\ IF op = "request_streamed" /\ Classify(resp) = "return"
       THEN calls' = 0 /\ resps' = << >> /\ sleeps' = 0
       ELSE calls' = calls + 1 /\ resps' = Append(resps, resp) /\ UNCHANGED sleeps
    /\ CASE Classify(resp) = "propagate" -> Finish(TransportError(urlstr))
         [] Classify(resp) = "return" -> Finish(Returned(resp))
         [] Classify(resp) = "raise" -> Finish(StatusError(resp, urlstr))
         [] Classify(resp) = "backoff" ->
                /\ r' = resp
                /\ delay' = Backoff(delay, jitter)
                /\ pc' = "sleep"
                /\ UNCHANGED <<result, outcome, i, gen, stream, generr>>
    /\ UNCHANGED <<max_retries, base_delay, op, urlstr, entry, other, closes, lines, yielded>>

\* sleep(delay) returns and the for statement takes the next value of xrange;
\* time.sleep refuses a negative argument (IOError, Invalid argument), and no
\* except clause of request catches that
Sleep ==
    /\ pc = "sleep"
    /\ IF delay < 0
       THEN /\ Finish(SleepError(urlstr))
            /\ UNCHANGED sleeps
       ELSE /\ sleeps' = sleeps + 1
            /\ IF InRange(i - 1)
               THEN /\ i' = i - 1
                    /\ pc' = "attempt"
               ELSE /\ pc' = "limit"
                    /\ UNCHANGED i
            /\ UNCHANGED <<r, delay, result, outcome, gen, stream, generr>>
    /\ UNCHANGED <<max_retries, base_delay, op, urlstr, calls, resps, entry, other,
                   closes, lines, yielded>>

\* lines 122-124: the loop ran out of values
Limit ==
    /\ pc = "limit"
    /\ Finish(LimitError(r, max_retries, urlstr))
    /\ UNCHANGED <<max_retries, base_delay, op, urlstr, calls, sleeps, resps,
                   entry, other, closes, lines, yielded>>

\* a request_streamed that is an ordinary function: it makes the request when called
RequestStreamedEager(u) ==
    /\ Quiet
    /\ op' = "request_streamed"
    /\ Enter(u)
    /\ gen' = "created"
    /\ stream' = "none"
    /\ closes' = 0
    /\ lines' = << >>
    /\ yielded' = << >>
    /\ generr' = "none"
    /\ UNCHANGED <<max_retries, base_delay>>

\* request_streamed(method, urlstr): the call only builds the generator
RequestStreamed(u) ==
    /\ Quiet
    /\ op' = "request_streamed"
    /\ urlstr' = u
    /\ pc' = "idle"
    /\ calls' = 0
    /\ sleeps' = 0
    /\ resps' = << >>
    /\ result' = NoResult
    /\ outcome' = NoOutcome
    /\ gen' = "created"
    /\ stream' = "none"
    /\ closes' = 0
    /\ lines' = << >>
    /\ yielded' = << >>
    /\ generr' = "none"
    /\ UNCHANGED <<max_retries, base_delay, i, r, delay, entry, other>>

\* endpoint(self.url, path(database, resource)) for the one database of the model
Databases == {"db"}
PathOf(database, resource) ==
    IF resource = "/_changes" THEN FeedUrl ELSE AllDocsUrl

\* changes_streamed(database): return self.request_streamed('GET', .../_changes, ...)
ChangesStreamed(database) ==
    /\ database \in Databases
    /\ RequestStreamed(PathOf(database, "/_changes"))

\* all_docs_streamed(database): each of its three returns is a call of
\* self.request_streamed on .../_all_docs
AllDocsStreamed(database) ==
    /\ database \in Databases
    /\ RequestStreamed(PathOf(database, "/_all_docs"))

\* the consumer asks for the next value: the first time the body starts and
\* calls self.request(method, urlstr, stream=True), later it resumes after yield
Pull ==
    \/ /\ gen = "created"
       /\ gen' = "requesting"
       /\ Enter(urlstr)
       /\ UNCHANGED <<max_retries, base_delay, op, stream, closes, lines, yielded, generr>>
    \/ /\ gen = "suspended"
       /\ gen' = "running"
       /\ UNCHANGED <<max_retries, base_delay, reqvars, stream, closes, lines, yielded, generr>>

\* leaving the with block: closing.__exit__ calls r.close()
CloseStream ==
    /\ stream' = "closed"
    /\ closes' = closes + 1

\* a body that collects the values and goes on reading instead of yielding
ReadLineBuffered(line) ==
    /\ gen = "running"
    /\ Len(lines) < MaxLines
    /\ lines' = Append(lines, line)
    /\ IF line = << >>
       THEN UNCHANGED <<gen, stream, closes, yielded, generr>>
       ELSE LET parsed == ParseLine(line)
            IN IF parsed.err
               THEN /\ CloseStream
                    /\ gen' = "finished"
                    /\ generr' = "UnicodeDecodeError"
                    /\ UNCHANGED yielded
               ELSE IF parsed.data # EmptyStr
               THEN /\ yielded' = Append(yielded, parsed.data)
                    /\ UNCHANGED <<gen, stream, closes, generr>>
               ELSE UNCHANGED <<gen, stream, closes, yielded, generr>>
    /\ UNCHANGED <<max_retries, base_delay, reqvars>>

\* r.iter_lines() delivers a line; lines 160-163
ReadLine(line) ==
    /\ gen = "running"
    /\ Len(lines) < MaxLines
    /\ lines' = Append(lines, line)
    /\ IF line = << >>
       THEN UNCHANGED <<gen, stream, closes, yielded, generr>>
       ELSE LET parsed == ParseLine(line)
            IN IF parsed.err
               THEN /\ CloseStream
                    /\ gen' = "finished"
                    /\ generr' = "UnicodeDecodeError"
                    /\ UNCHANGED yielded
               ELSE IF parsed.data # EmptyStr
               THEN /\ yielded' = Append(yielded, parsed.data)
                    /\ gen' = "suspended"
                    /\ UNCHANGED <<stream, closes, generr>>
               ELSE UNCHANGED <<gen, stream, closes, yielded, generr>>
    /\ UNCHANGED <<max_retries, base_delay, reqvars>>

\* r.iter_lines() is exhausted: the for loop and the with block end
ReadEnd ==
    /\ gen = "running"
    /\ CloseStream
    /\ gen' = "finished"
    /\ UNCHANGED <<max_retries, base_delay, reqvars, lines, yielded, generr>>

\* a read error that leaves the generator without running the with block's exit
ReadFailLeak ==
    /\ gen = "running"
    /\ gen' = "finished"
    /\ generr' = "ConnectionError"
    /\ UNCHANGED <<stream, closes>>
    /\ UNCHANGED <<max_retries, base_delay, reqvars, lines, yielded>>

\* r.iter_lines() raises: the transport failed while reading
ReadFail ==
    /\ gen = "running"
    /\ CloseStream
    /\ gen' = "finished"
    /\ generr' = "ConnectionError"
    /\ UNCHANGED <<max_retries, base_delay, reqvars, lines, yielded>>

\* a generator whose response is not released when it is dropped
AbandonLeak ==
    /\ gen \in {"created", "suspended"}
    /\ gen' = "closed"
    /\ UNCHANGED <<stream, closes>>
    /\ UNCHANGED <<max_retries, base_delay, reqvars, lines, yielded, generr>>

\* the consumer drops the generator: GeneratorExit is raised at the yield
\* and unwinds the with block; a generator that never started has no frame to unwind
Abandon ==
    /\ gen \in {"created", "suspended"}
    /\ gen' = "closed"
    /\ IF gen = "suspended" THEN CloseStream ELSE UNCHANGED <<stream, closes>>
    /\ UNCHANGED <<max_retries, base_delay, reqvars, lines, yielded, generr>>

Next ==
    \/ \E m \in 0..MaxRetries, b \in BaseDelays : Reconfigure(m, b)
    \/ \E u \in Urls : Request(u)
    \/ \E u \in Urls : CreateDatabase(u)
    \/ \E resp \in Responses : \E j \in Jitters(resp) : Attempt(resp, j)
    \/ Sleep
    \/ Limit
    \/ RequestStreamed(FeedUrl)
    \/ Pull
    \/ \E line \in Lines : ReadLine(line)
    \/ ReadEnd
    \/ ReadFail
    \/ Abandon

Spec == Init /\ [][Next]_vars

\* retry_config assigns whatever it is given (lines 59-60): the arguments a
\* caller can pass include negative ones
NegativeBaseDelay == -5
RetriesArgs == (-1)..MaxRetries
BaseDelayArgs == BaseDelays \cup {NegativeBaseDelay}

NextAnyArgs ==
    \/ \E m \in RetriesArgs, b \in BaseDelayArgs : Reconfigure(m, b)
    \/ \E u \in Urls : Request(u)
    \/ \E resp \in Responses : \E j \in Jitters(resp) : Attempt(resp, j)
    \/ Sleep
    \/ Limit

SpecAnyArgs == Init /\ [][NextAnyArgs]_vars

\* the streaming operations from their call to the end of the sequence, over
\* streams of a data line and a blank line
StartLines == {LRowA, LBlank}

NextStreamed ==
    \/ \E m \in 0..MaxRetries, b \in BaseDelays : Reconfigure(m, b)
    \/ \E u \in Urls : RequestStreamed(u)
    \/ \E database \in Databases : ChangesStreamed(database)
    \/ \E database \in Databases : AllDocsStreamed(database)
    \/ Pull
    \/ \E resp \in Responses : \E j \in Jitters(resp) : Attempt(resp, j)
    \/ Sleep
    \/ Limit
    \/ \E line \in StartLines : ReadLine(line)
    \/ ReadEnd
    \/ ReadFail
    \/ Abandon

SpecStreamed == Init /\ [][NextStreamed]_vars

\* ------------------------------------------- a second call of request
\* Cloudant.request run by another thread on the same session: r, delay and
\* the loop variable are locals of its own frame; self is only read

\* return r / raise in the second frame
OtherFinish(o, res) ==
    [o EXCEPT !.pc = "done", !.i = 0, !.r = None, !.delay = 0, !.noise = 0, !.result = res]

\* lines 107-109 in the second frame
OtherRequest(u) ==
    /\ other.pc \in {"idle", "done"}
    /\ op \in {"none", "request"}
    /\ other' = [pc |-> IF InRange(max_retries) THEN "attempt" ELSE "limit",
                 urlstr |-> u, i |-> max_retries, r |-> None, delay |-> base_delay,
                 noise |-> 0, calls |-> 0, sleeps |-> 0, resps |-> << >>,
                 result |-> NoResult]
    /\ UNCHANGED <<max_retries, base_delay, frame, genvars>>

\* a request whose delay is kept on the session: both calls add to the same delay
OtherAttemptSharedDelay(resp, jitter) ==
    /\ other.pc = "attempt"
    /\ LET o == [other EXCEPT !.calls = @ + 1, !.resps = Append(@, resp)]
       IN CASE Classify(resp) = "propagate" ->
                   other' = OtherFinish(o, TransportError(o.urlstr)) /\ UNCHANGED delay
            [] Classify(resp) = "return" ->
                   other' = OtherFinish(o, Returned(resp)) /\ UNCHANGED delay
            [] Classify(resp) = "raise" ->
                   other' = OtherFinish(o, StatusError(resp, o.urlstr)) /\ UNCHANGED delay
            [] Classify(resp) = "backoff" ->
                   /\ delay' = Backoff(delay, jitter)
                   /\ other' = [o EXCEPT !.r = resp, !.delay = Backoff(delay, jitter),
                                         !.noise = @ + jitter, !.pc = "sleep"]
    /\ UNCHANGED <<max_retries, base_delay, pc, op, urlstr, i, r, calls, sleeps,
                   resps, result, outcome, entry, genvars>>

\* one pass of the try block, lines 110-120, in the second frame
OtherAttempt(resp, jitter) ==
    /\ other.pc = "attempt"
    /\ LET o == [other EXCEPT !.calls = @ + 1, !.resps = Append(@, resp)]
       IN CASE Classify(resp) = "propagate" ->
                   other' = OtherFinish(o, TransportError(o.urlstr))
            [] Classify(resp) = "return" ->
                   other' = OtherFinish(o, Returned(resp))
            [] Classify(resp) = "raise" ->
                   other' = OtherFinish(o, StatusError(resp, o.urlstr))
            [] Classify(resp) = "backoff" ->
                   other' = [o EXCEPT !.r = resp, !.delay = Backoff(@, jitter),
                                      !.noise = @ + jitter, !.pc = "sleep"]
    /\ UNCHANGED <<max_retries, base_delay, frame, genvars>>

\* sleep(delay) and the next value of xrange in the second frame
OtherSleep ==
    /\ other.pc = "sleep"
    /\ other' = IF other.delay < 0
                THEN OtherFinish(other, SleepError(other.urlstr))
                ELSE IF InRange(other.i - 1)
                THEN [other EXCEPT !.sleeps = @ + 1, !.i = @ - 1, !.pc = "attempt"]
                ELSE [other EXCEPT !.sleeps = @ + 1, !.pc = "limit"]
    /\ UNCHANGED <<max_retries, base_delay, frame, genvars>>

\* lines 122-124 in the second frame
OtherLimit ==
    /\ other.pc = "limit"
    /\ other' = OtherFinish(other, LimitError(other.r, max_retries, other.urlstr))
    /\ UNCHANGED <<max_retries, base_delay, frame, genvars>>

NextTwoCalls ==
    \/ \E m \in 0..MaxRetries, b \in BaseDelays : Reconfigure(m, b)
    \/ \E u \in Urls : Request(u)
    \/ \E resp \in Responses : \E j \in Jitters(resp) : Attempt(resp, j)
    \/ Sleep
    \/ Limit
    \/ OtherRequest("/db")
    \/ \E resp \in Responses : \E j \in Jitters(resp) : OtherAttempt(resp, j)
    \/ OtherSleep
    \/ OtherLimit

SpecTwoCalls == Init /\ [][NextTwoCalls]_vars

\* retry_config called from another thread while request is in its loop
RetryConfigDuringRequest(m, b) ==
    /\ pc \in {"attempt", "sleep", "limit"}
    /\ RetryConfig(m, b)
    /\ UNCHANGED <<reqvars, genvars>>

NextConcurrent ==
    \/ \E m \in 0..MaxRetries, b \in BaseDelays : Reconfigure(m, b)
    \/ \E u \in Urls : Request(u)
    \/ \E resp \in Responses : \E j \in Jitters(resp) : Attempt(resp, j)
    \/ Sleep
    \/ Limit
    \/ \E m \in 0..MaxRetries, b \in BaseDelays : RetryConfigDuringRequest(m, b)

SpecConcurrent == Init /\ [][NextConcurrent]_vars

\* ====================================================================
\* Properties of Cloudant.request
\* ====================================================================
Last(q) == q[Len(q)]
All429(q) == \A k \in 1..Len(q) : q[k] = RateLimit
IsLimitError(e) == e.kind = "HTTPError" /\ e.text = "max retries limit"

\* C1: when every attempt of a call is answered 429, the call makes exactly
\* max_retries + 1 network calls and then fails with the retry-limit error.
C1_AttemptsAreRetriesPlusOne ==
    (pc = "done" /\ All429(resps)) =>
        (calls = max_retries + 1 /\ IsLimitError(result))

\* C2: with max_retries = 0 every call makes exactly one network call; a 2xx
\* answer is returned, a 429 answer fails at once with the retry-limit error.
C2_ZeroRetriesOneAttempt ==
    (pc = "done" /\ max_retries = 0) =>
        /\ calls = 1
        /\ Len(resps) = 1
        /\ Is2xx(resps[1]) => result = Returned(resps[1])
        /\ resps[1] = RateLimit => IsLimitError(result)

\* C3: for every k < max_retries, k answers of 429 leave the call retrying, and
\* k answers of 429 followed by a 2xx answer make the call return that answer
\* after exactly k + 1 network calls and exactly k delays.
C3_SuccessAfterKRetries ==
    \A k \in 0..(max_retries - 1) :
        /\ (k >= 1 /\ Len(resps) = k /\ All429(resps)) =>
               (pc \in {"attempt", "sleep"} /\ calls = k /\ sleeps \in {k - 1, k})
        /\ (Len(resps) = k + 1 /\ All429(SubSeq(resps, 1, k)) /\ Is2xx(resps[k + 1])) =>
               /\ pc = "done"
               /\ result = Returned(resps[k + 1])
               /\ calls = k + 1
               /\ sleeps = k

C3_Witness ==
    /\ pc = "done"
    /\ op = "request"
    /\ result.kind = "return"
    /\ Is2xx(result.status)
    /\ calls = 3
    /\ sleeps = 2

\* C4 as stated: an attempt answered with a status that is neither 2xx nor 429
\* makes the call fail at once with an HTTP error carrying that status.
C4_Non2xxFailsAtOnce ==
    (resps # << >> /\ Last(resps) \in Statuses /\ ~Is2xx(Last(resps))
        /\ Last(resps) # RateLimit) =>
        (pc = "done" /\ result.kind = "HTTPError" /\ result.status = Last(resps))

\* C4 amended: an attempt answered with a status of 400 or above other than 429
\* makes the call fail at once with an HTTP error carrying that status; that
\* attempt is the last network call and no delay follows it.
C4_ErrorStatusFailsAtOnce ==
    (resps # << >> /\ Last(resps) >= 400 /\ Last(resps) # RateLimit) =>
        /\ pc = "done"
        /\ result = StatusError(Last(resps), urlstr)
        /\ calls = Len(resps)
        /\ sleeps = Len(resps) - 1

C4_Witness ==
    /\ pc = "done"
    /\ result.kind = "HTTPError"
    /\ result.status = 500
    /\ calls = 2
    /\ sleeps = 1

\* C5: a call that fails after 429 on every attempt raises an error with status
\* 429 that names the url and the configured limit in a 'max retries limit'
\* message, reaches the caller of the operation unchanged, and differs from
\* every error raised for a response status.
C5_LimitErrorCarriesContext ==
    (pc = "done" /\ resps # << >> /\ All429(resps)) =>
        /\ result.kind = "HTTPError"
        /\ result.status = RateLimit
        /\ result.text = "max retries limit"
        /\ result.limit = max_retries
        /\ result.url = urlstr
        /\ outcome.res = result
        /\ \A s \in Statuses, u \in Urls : result # StatusError(s, u)

C5_Witness ==
    /\ pc = "done"
    /\ op = "create_database"
    /\ resps # << >>
    /\ All429(resps)
    /\ outcome.res.status = RateLimit
    /\ outcome.res.text = "max retries limit"

\* C6: an attempt that fails in the transport ends the call with the
\* transport's own error: it is the last network call, no delay follows it, and
\* the only delays taken are those of the 429 answers before it.
C6_TransportFailurePropagates ==
    (resps # << >> /\ Last(resps) = TransportFail) =>
        /\ pc = "done"
        /\ result = TransportError(urlstr)
        /\ outcome.res = result
        /\ calls = Len(resps)
        /\ sleeps = Len(resps) - 1

C6_Witness ==
    /\ pc = "done"
    /\ result.kind = "ConnectionError"
    /\ calls = 2
    /\ sleeps = 1

\* ====================================================================
\* Properties of Cloudant.request_streamed
\* ====================================================================
\* the text of a line without trailing whitespace and without one final comma
Core(l) ==
    LET t == Rstrip(l)
    IN IF t # << >> /\ Last(t) = "," THEN SubSeq(t, 1, Len(t) - 1) ELSE t

\* starts with '{' and ends with '}' or '},'
Braced(l) == Core(l) # << >> /\ Core(l)[1] = "{" /\ Last(Core(l)) = "}"

\* one value per braced line: the object its text (comma removed) decodes to
ObjectsOfBraced(ls) ==
    LET sel == SelectSeq(ls, Braced)
    IN [k \in 1..Len(sel) |-> JsonLoads(Core(sel[k])).v]

\* C7 as stated: the values yielded are exactly the decoded objects of the
\* lines that start with '{' and end with '}' or '},', one per such line, in
\* the order of the lines.
C7_OneValuePerBracedLine ==
    generr = "none" => yielded = ObjectsOfBraced(lines)

\* a line that carries a value: UTF-8, braced, something between the braces,
\* and JSON either as it stands or with one '}' appended
Accepted(l) ==
    /\ ~DecodeFails(l)
    /\ Braced(l)
    /\ Len(Core(l)) >= 3
    /\ JsonLoads(Core(l)).ok \/ JsonLoads(Core(l) \o <<"}">>).ok

ValueOf(l) ==
    IF JsonLoads(Core(l)).ok THEN JsonLoads(Core(l)).v
    ELSE JsonLoads(Core(l) \o <<"}">>).v

ValuesOfAccepted(ls) ==
    LET sel == SelectSeq(ls, Accepted)
    IN [k \in 1..Len(sel) |-> ValueOf(sel[k])]

\* C7 amended: at every point the values yielded are exactly the values of the
\* accepted lines read so far, one per line, in the order of the lines; every
\* other line ('{}', '{x}', brackets, blanks) contributes nothing.
C7_YieldsAcceptedLinesInOrder ==
    yielded = ValuesOfAccepted(lines)

C7_Witness ==
    /\ gen = "finished"
    /\ generr = "none"
    /\ stream = "closed"
    /\ lines = <<LOpen, LRowA, LRowC>>
    /\ Len(yielded) = 2
    /\ yielded[1] # yielded[2]

\* {"id":"c","value":1}
ObjCutRecovered ==
    <<"obj", (<<"i", "d">> :> <<"str", <<"c">> >>)
             @@ (<<"v", "a", "l", "u", "e">> :> <<"num", <<"1">> >>)>>

\* {"id":"c","value":{"n":1}}
ObjCutNestedRecovered ==
    <<"obj", (<<"i", "d">> :> <<"str", <<"c">> >>)
             @@ (<<"v", "a", "l", "u", "e">> :> <<"obj", (<<"n">> :> <<"num", <<"1">> >>)>>)>>

\* C8 as stated: the line {"id":"c","value":1 (no closing brace) is recovered
\* and yields {"id":"c","value":1}.
C8_CutLineRecovered ==
    (lines # << >> /\ Last(lines) = LCut) =>
        (yielded # << >> /\ Last(yielded) = ObjCutRecovered)

\* C8 amended: a line that ends with '}' but lacks its outermost closing
\* brace, {"id":"c","value":{"n":1} , is recovered with one '}' appended and
\* yields {"id":"c","value":{"n":1}}; the line {"id":"c","value":1 yields nothing.
C8_BraceEndedCutLineRecovered ==
    /\ (lines # << >> /\ Last(lines) = LCutNested) =>
           (yielded # << >> /\ Last(yielded) = ObjCutNestedRecovered)
    /\ (lines # << >> /\ Last(lines) = LCut) =>
           (\A k \in 1..Len(yielded) : yielded[k] # ObjCutRecovered)

C8_Witness ==
    /\ gen = "suspended"
    /\ lines = <<LOpen, LRowA, LCutNested>>
    /\ yielded[2] = ObjCutNestedRecovered

\* only '[', ']' or whitespace; failing the pattern; failing both parse attempts
NoiseLines == {LEmpty, LBlank, LOpen, LClose} \cup {LCut, LEmptyObj} \cup {LNoise, LCutTwice}
DataLines == {LRowA, LRowC, LCutNested}

\* C9: reading a noise line yields nothing, raises nothing and leaves the
\* generator reading its open stream; a data line read after any noise is
\* yielded.
C9_NoiseIsSkipped ==
    [][\A l \in Lines :
          (gen = "running" /\ lines' = Append(lines, l)) =>
              /\ l \in NoiseLines =>
                    /\ yielded' = yielded
                    /\ generr' = "none"
                    /\ gen' = "running"
                    /\ stream' = "open"
                    /\ closes' = 0
              /\ l \in DataLines =>
                    /\ yielded' = Append(yielded, ValueOf(l))
                    /\ generr' = "none"
                    /\ gen' = "suspended"]_vars

C9_Witness ==
    /\ lines = <<LOpen, LNoise, LRowC>>
    /\ Len(yielded) = 1
    /\ gen = "suspended"
    /\ generr = "none"

\* C10: a generator abandoned after its first value has closed the response
\* exactly once, and from then on no line is read and no close is repeated.
C10_AbandonClosesOnce ==
    /\ []((gen = "closed" /\ Len(yielded) = 1) => (closes = 1 /\ stream = "closed"))
    /\ [][gen = "closed" => (Len(lines') <= Len(lines) /\ closes' <= closes)]_vars

C10_Witness ==
    /\ gen = "closed"
    /\ Len(yielded) = 1
    /\ closes = 1
    /\ Len(lines) < MaxLines

C12_PolicyStaysNonNegative == max_retries >= 0 /\ base_delay >= 0

\* C13: a call that is in its retry loop while retry_config runs keeps the
\* policy it started with: its delay grows from the base delay of that policy,
\* it gives up after the attempts that policy allows (max_retries of them, or
\* one more by the count of C1), and the limit its retry-limit error reports
\* is the max_retries of that policy.
C13_InFlightCallKeepsItsPolicy ==
    /\ pc \in {"attempt", "sleep"} =>
           /\ delay >= entry.base_delay
           /\ delay <= entry.base_delay + MaxJitter * calls
    /\ (pc = "done" /\ IsLimitError(result)) =>
           /\ calls \in {entry.max_retries, entry.max_retries + 1}
           /\ result.limit = entry.max_retries

\* C14: create_database gives (body, True) when the PUT is answered 2xx,
\* ({'ok': True}, False) without raising when it is answered 412, and raises
\* the HTTP error of every other failure: the status error of a 401 or 500,
\* the retry-limit error after 429s only.
C14_CreateDatabaseOutcomes ==
    (op = "create_database" /\ pc = "done" /\ resps # << >>) =>
        /\ Is2xx(Last(resps)) =>
               /\ outcome.res = Returned(Last(resps))
               /\ outcome.created = "True"
        /\ Last(resps) = 412 =>
               /\ outcome.res.kind = "return"
               /\ outcome.created = "False"
        /\ Last(resps) \in {401, 500} =>
               /\ outcome.res.kind = "HTTPError"
               /\ outcome.res.status = Last(resps)
               /\ outcome.created = "-"
        /\ Last(resps) = RateLimit =>
               /\ IsLimitError(outcome.res)
               /\ outcome.res.status = RateLimit
               /\ outcome.created = "-"

\* the database was already there, after a retry
C14_Witness ==
    /\ op = "create_database"
    /\ pc = "done"
    /\ resps = <<RateLimit, 412>>
    /\ outcome.created = "False"
    /\ outcome.res.kind = "return"

\* C15: every 429 of a call adds base_delay plus a noise of 0 to 9 hundredths
\* to the delay, so the delay before the n-th retry is n * base_delay plus
\* the n noises.
C15_EachRetryAddsBaseDelay ==
    [][(pc = "attempt" /\ pc' = "sleep") =>
           /\ delay' - delay >= base_delay
           /\ delay' - delay <= base_delay + MaxJitter]_vars

\* C16: a call waits only before another attempt: when it has given up, or
\* ended in any other way, it has slept one time fewer than it has called.
C16_WaitsOnlyBeforeARetry ==
    (pc \in {"limit", "done"} /\ calls >= 1) => sleeps = calls - 1

C19_EndsInOneOfThreeOutcomes ==
    /\ calls <= max_retries + 1
    /\ (pc = "done" /\ op = "request" /\ \A k \in 1..Len(resps) : resps[k] # TransportFail) =>
           \/ result.kind = "return"
           \/ /\ result.kind = "HTTPError"
              /\ ~IsLimitError(result)
              /\ result.status # RateLimit
           \/ /\ IsLimitError(result)
              /\ result.status = RateLimit
              /\ result.limit = max_retries
              /\ result.url = urlstr

\* {"id":"a"}
ObjRowA == <<"obj", (<<"i", "d">> :> <<"str", <<"a">> >>)>>

\* {"id":"c"}
ObjRowC == <<"obj", (<<"i", "d">> :> <<"str", <<"c">> >>)>>

\* C18: the body of the generator reads a line only while it runs, it runs
\* only after a pull (the first one makes the request, a later one resumes it
\* after a yield), and a value it decodes goes to the consumer at once: when
\* the consumer holds the k-th value, the last line read is the line that
\* value came from.
C18_LinesReadOnDemand ==
    /\ [](gen = "suspended" =>
              /\ lines # << >> /\ yielded # << >>
              /\ Accepted(Last(lines))
              /\ Last(yielded) = ValueOf(Last(lines)))
    /\ [](gen \in {"none", "created", "requesting"} => lines = << >>)
    /\ [][Len(lines') > Len(lines) => gen = "running"]_vars
    /\ [][(gen' = "running" /\ gen # "running") =>
              gen \in {"requesting", "suspended"}]_vars
    /\ [][Len(yielded') > Len(yielded) =>
              /\ gen' = "suspended"
              /\ Len(yielded') = Len(yielded) + 1
              /\ Len(lines') = Len(lines) + 1]_vars

C18_Witness ==
    /\ gen = "suspended"
    /\ lines = <<LRowA, LRowC>>
    /\ yielded = <<ObjRowA, ObjRowC>>
    /\ stream = "open"

\* the lines that pass the pattern ^(\{.+\}?\}),?$
PatternLines == {LRowA, LRowC, LCutNested, LCutTwice, LNoise}

\* C20: a line that passes the pattern yields the parse of its captured text,
\* or else the parse of that text with one '}' appended, or else nothing: a
\* line that would need two braces, or that is no JSON at all, yields no
\* value and raises nothing.
C20_AtMostOneBraceAppended ==
    /\ [](\A l \in Lines \ {LBad} : Matches(Rstrip(l)) <=> l \in PatternLines)
    /\ [][\A l \in PatternLines :
             (gen = "running" /\ lines' = Append(lines, l)) =>
                 /\ l = LRowA => yielded' = Append(yielded, ObjRowA)
                 /\ l = LRowC => yielded' = Append(yielded, ObjRowC)
                 /\ l = LCutNested => yielded' = Append(yielded, ObjCutNestedRecovered)
                 /\ l \in {LCutTwice, LNoise} =>
                        /\ yielded' = yielded
                        /\ generr' = "none"
                        /\ gen' = "running"]_vars

C20_Witness ==
    /\ gen = "running"
    /\ lines = <<LCutNested, LCutTwice>>
    /\ yielded = <<ObjCutNestedRecovered>>

\* the self.request call of a generator ended with an exception
RequestOfGeneratorFailed ==
    op = "request_streamed" /\ pc = "done" /\ result.kind # "none"

ResultOf(rs, m, u) ==
    IF rs = << >> THEN LimitError(None, m, u)
    ELSE IF Last(rs) = TransportFail THEN TransportError(u)
    ELSE IF Last(rs) = RateLimit THEN LimitError(RateLimit, m, u)
    ELSE IF Last(rs) >= 400 THEN StatusError(Last(rs), u)
    ELSE Returned(Last(rs))

InLoop(p) == p \in {"attempt", "sleep", "limit"}

\* C22: two request calls in flight on one session share no retry state. The
\* state of each call is a function of the policy and of the responses and
\* jitters of its own attempts: its number of attempts, its place in the
\* loop, its delay (base_delay plus its own jitters) and its outcome; and a
\* step of one call changes nothing in the frame of the other.
C22_CallsShareNoRetryState ==
    /\ [](InLoop(other.pc) =>
              /\ other.calls = Len(other.resps)
              /\ All429(other.resps)
              /\ other.delay = base_delay + other.noise
              /\ other.noise <= MaxJitter * other.calls
              /\ other.sleeps = other.calls - (IF other.pc = "sleep" THEN 1 ELSE 0)
              /\ other.pc = "attempt" => other.i = max_retries - other.calls
              /\ other.pc = "limit" => other.calls = max_retries)
    /\ [](other.pc = "done" =>
              /\ other.calls = Len(other.resps)
              /\ other.calls <= max_retries
              /\ other.result = ResultOf(other.resps, max_retries, other.urlstr))
    /\ [](InLoop(pc) =>
              /\ calls = Len(resps)
              /\ All429(resps)
              /\ delay >= base_delay /\ delay <= base_delay + MaxJitter * calls
              /\ sleeps = calls - (IF pc = "sleep" THEN 1 ELSE 0)
              /\ pc = "attempt" => i = max_retries - calls
              /\ pc = "limit" => calls = max_retries)
    /\ [](pc = "done" =>
              /\ calls = Len(resps)
              /\ result = ResultOf(resps, max_retries, urlstr))
    /\ [][(InLoop(other.pc) /\ other' # other) => UNCHANGED frame]_vars
    /\ [][(InLoop(pc) /\ frame' # frame) => other' = other]_vars

\* both calls in their loops, each with its own count of 429s and its own delay
C22_Witness ==
    /\ pc = "sleep" /\ other.pc = "sleep"
    /\ calls = 1 /\ other.calls = 3
    /\ delay = base_delay
    /\ other.delay = base_delay + 3 * MaxJitter
====
